---- MODULE Spec2Model ----
(***************************************************************************)
(* Model of src/meeting_summary.py: the MeetingSummary maubot plugin.      *)
(*                                                                         *)
(* A Python str is a sequence of one-character strings, so that slicing,   *)
(* startswith, lstrip, urlparse and pathlib work on characters as they do  *)
(* in the program.  The two emoji of the source are written as the tokens  *)
(* "CROSS_MARK" (U+274C) and "CHECK_MARK" (U+2705).                        *)
(***************************************************************************)
EXTENDS Integers, Sequences, FiniteSets, TLC

\* ------------------------------------------------------------------ bounds
\* Number of room messages dispatched to on_message in one run.
NumEvents == 2
\* Number of fragments a transcript of SpecExtract is put together from.
MaxFragments == 3

Events == 1..NumEvents

\* --------------------------------------------------------------- constants
MEETBOT_PREFIX == <<"T","e","x","t"," ","L","o","g",":"," ">>
LOG_SUFFIX == <<".","l","o","g",".","t","x","t">>
SUMMARY_SUFFIX == <<".","s","u","m","m","a","r","y",".","m","d">>
\* "*Note: This summary has not been validated by the attendants.*\n\n"
UNVALIDATED_NOTE == <<"*Note: This summary has not been validated by the attendants.*", "\n", "\n">>
TYPING_TIMEOUT == 30000
CROSS_MARK == "CROSS_MARK"
CHECK_MARK == "CHECK_MARK"

\* ------------------------------------------------------------- str methods
startswith(s, prefix) ==
    Len(s) >= Len(prefix) /\ SubSeq(s, 1, Len(prefix)) = prefix

endswith(s, suffix) ==
    Len(s) >= Len(suffix) /\ SubSeq(s, Len(s) - Len(suffix) + 1, Len(s)) = suffix

\* s[n:] for n >= 0
SliceFrom(s, n) == SubSeq(s, n + 1, Len(s))

\* s[:-n] for n > 0: empty when the string is not longer than n
SliceDropLast(s, n) == IF Len(s) > n THEN SubSeq(s, 1, Len(s) - n) ELSE <<>>

\* s.lstrip(chars)
RECURSIVE lstrip(_, _)
lstrip(s, chars) ==
    IF s # <<>> /\ Head(s) \in chars THEN lstrip(Tail(s), chars) ELSE s

\* s.find(c): the first index (from 1) of a character of cs in s, 0 if none
find(s, cs) ==
    IF \E i \in 1..Len(s) : s[i] \in cs
    THEN CHOOSE i \in 1..Len(s) : s[i] \in cs /\ \A j \in 1..(i - 1) : s[j] \notin cs
    ELSE 0

\* s.rfind(c): the last index (from 1) of c in s, 0 if none
rfind(s, c) ==
    IF \E i \in 1..Len(s) : s[i] = c
    THEN CHOOSE i \in 1..Len(s) : s[i] = c /\ \A j \in (i + 1)..Len(s) : s[j] # c
    ELSE 0

\* sep.join(strs)
RECURSIVE join(_, _)
join(sep, strs) ==
    IF strs = <<>> THEN <<>>
    ELSE IF Len(strs) = 1 THEN strs[1]
    ELSE strs[1] \o sep \o join(sep, Tail(strs))

LOWERCASE == <<"a","b","c","d","e","f","g","h","i","j","k","l","m",
               "n","o","p","q","r","s","t","u","v","w","x","y","z">>
UPPERCASE == <<"A","B","C","D","E","F","G","H","I","J","K","L","M",
               "N","O","P","Q","R","S","T","U","V","W","X","Y","Z">>
DIGITS == {"0","1","2","3","4","5","6","7","8","9"}
Range(f) == {f[i] : i \in DOMAIN f}
isalpha(c) == c \in Range(LOWERCASE) \cup Range(UPPERCASE)

lower(s) ==
    [i \in 1..Len(s) |->
        IF s[i] \in Range(UPPERCASE)
        THEN LOWERCASE[CHOOSE k \in 1..26 : UPPERCASE[k] = s[i]]
        ELSE s[i]]

\* ---------------------------------------------------- urllib.parse.urlparse
scheme_chars == Range(LOWERCASE) \cup Range(UPPERCASE) \cup DIGITS \cup {"+", "-", "."}

\* The schemes of urllib's uses_params that the URLs of this model can carry.
uses_params == { <<>>, <<"f","t","p">>, <<"h","t","t","p">>, <<"h","t","t","p","s">> }

\* urlsplit, step by step.  Leading blanks are stripped and tabs and line
\* breaks removed.
clean_url(url) ==
    SelectSeq(lstrip(url, {" ", "\t", "\n", "\r"}), LAMBDA c : c \notin {"\t", "\n", "\r"})

\* s up to the first character of cs (all of s when there is none)
before_first(s, cs) ==
    LET i == find(s, cs) IN IF i = 0 THEN s ELSE SubSeq(s, 1, i - 1)

\* s from the first character of cs on (empty when there is none)
from_first(s, cs) ==
    LET i == find(s, cs) IN IF i = 0 THEN <<>> ELSE SliceFrom(s, i - 1)

\* url[:i] is a scheme: i > 0, a letter first, scheme characters only
has_scheme(url) ==
    LET i == find(url, {":"})
    IN i > 1 /\ isalpha(url[1]) /\ \A j \in 1..(i - 1) : url[j] \in scheme_chars

scheme_of(url) ==
    IF has_scheme(url) THEN lower(before_first(url, {":"})) ELSE <<>>

after_scheme(url) ==
    IF has_scheme(url) THEN SliceFrom(url, find(url, {":"})) ELSE url

\* if url[:2] == "//": the netloc ends before the first of "/", "?", "#"
after_netloc(url) ==
    IF startswith(url, <<"/", "/">>)
    THEN from_first(SliceFrom(url, 2), {"/", "?", "#"})
    ELSE url

\* the fragment is cut off first, then the query
urlsplit_path(url) ==
    before_first(before_first(after_netloc(after_scheme(url)), {"#"}), {"?"})

\* _splitparams: the ";params" of the last path segment are cut off.
splitparams(url) ==
    LET slash == rfind(url, "/")
    IN SubSeq(url, 1, slash) \o before_first(SliceFrom(url, slash), {";"})

params_cut(scheme, path) ==
    IF scheme \in uses_params /\ find(path, {";"}) # 0 THEN splitparams(path) ELSE path

parse_clean(url) ==
    [scheme |-> scheme_of(url), path |-> params_cut(scheme_of(url), urlsplit_path(url))]

urlparse(url) == parse_clean(clean_url(url))

\* ------------------------------------------------------ pathlib (PosixPath)
\* The segments of s between "/" characters, empty ones included.
RECURSIVE split(_, _)
split(s, sep) ==
    LET i == find(s, {sep})
    IN IF i = 0 THEN <<s>>
       ELSE <<SubSeq(s, 1, i - 1)>> \o split(SliceFrom(s, i), sep)

\* Path(s): root "//" for exactly two leading slashes, "/" for one or for
\* three and more, none otherwise; empty and "." segments are dropped,
\* ".." segments are kept.
Path(s) ==
    LET lead == Len(s) - Len(lstrip(s, {"/"}))
    IN [root |-> IF lead = 2 THEN <<"/", "/">> ELSE IF lead >= 1 THEN <<"/">> ELSE <<>>,
        parts |-> SelectSeq(split(s, "/"), LAMBDA seg : seg # <<>> /\ seg # <<".">>)]

\* self / other: an absolute right operand replaces the left one.
join_parsed(self, o) ==
    IF o.root # <<>> THEN o
    ELSE [root |-> self.root, parts |-> self.parts \o o.parts]

joinpath(self, other) == join_parsed(self, Path(other))

\* str(path)
PathStr(p) ==
    IF p.root = <<>> /\ p.parts = <<>> THEN <<".">>
    ELSE p.root \o join(<<"/">>, p.parts)

\* path.parent
parent(p) ==
    IF p.parts = <<>> THEN p
    ELSE [p EXCEPT !.parts = SubSeq(p.parts, 1, Len(p.parts) - 1)]

\* The directory entry the operating system reaches for a path: ".." steps
\* to the parent (and stays at the root of an absolute path).  No symbolic
\* links: the archive tree holds only what the plugin creates.
RECURSIVE walk(_, _, _)
walk(done, todo, absolute) ==
    IF todo = <<>> THEN done
    ELSE IF Head(todo) = <<".", ".">>
         THEN IF done # <<>> /\ done[Len(done)] # <<".", ".">>
              THEN walk(SubSeq(done, 1, Len(done) - 1), Tail(todo), absolute)
              ELSE IF absolute THEN walk(done, Tail(todo), absolute)
              ELSE walk(Append(done, Head(todo)), Tail(todo), absolute)
         ELSE walk(Append(done, Head(todo)), Tail(todo), absolute)

resolve(p) == [root |-> p.root, parts |-> walk(<<>>, p.parts, p.root # <<>>)]

\* location a lies in the tree below directory d (or is d itself)
is_relative_to(a, d) ==
    /\ a.root = d.root
    /\ Len(a.parts) >= Len(d.parts)
    /\ SubSeq(a.parts, 1, Len(d.parts)) = d.parts

\* ------------------------------------------------------- extract_usernames
\* A transcript is a sequence of characters in which one element, TS, stands
\* for a whole timestamp, a maximal match of \d{4}-\d\d-\d\d \d\d:\d\d:\d\d.
TS == "2025-09-25 08:26:00"

\* The characters identities are made of, in increasing code point order (a
\* timestamp starts with a digit); sorted() compares strings by code point.
CODEPOINT_ORDER == <<"\n", " ", ".", TS, ":", "<", "@">> \o UPPERCASE \o LOWERCASE
ord(c) == CHOOSE i \in 1..Len(CODEPOINT_ORDER) : CODEPOINT_ORDER[i] = c

\* a < b for two strings
RECURSIVE str_lt(_, _)
str_lt(a, b) ==
    IF b = <<>> THEN FALSE
    ELSE IF a = <<>> THEN TRUE
    ELSE IF Head(a) = Head(b) THEN str_lt(Tail(a), Tail(b))
    ELSE ord(Head(a)) < ord(Head(b))

\* sorted(set_of_strings)
RECURSIVE sorted(_)
sorted(S) ==
    IF S = {} THEN <<>>
    ELSE LET least == CHOOSE x \in S : \A y \in S \ {x} : str_lt(x, y)
         IN <<least>> \o sorted(S \ {least})

\* The pattern  TS " <" (@[^>]+) "> "  matched at position i of text: the
\* index of the last character of the match, 0 when there is no match at i.
\* [^>]+ takes every character up to the next ">", line breaks included.
match_end(text, i) ==
    IF /\ i + 3 <= Len(text)
       /\ text[i] = TS /\ text[i + 1] = " " /\ text[i + 2] = "<" /\ text[i + 3] = "@"
    THEN LET g == find(SliceFrom(text, i + 3), {">"})
         IN IF g >= 2 /\ i + 3 + g + 1 <= Len(text) /\ text[i + 3 + g + 1] = " "
            THEN i + 3 + g + 1
            ELSE 0
    ELSE 0

\* the group (@[^>]+) of the match at i that ends at e
match_group(text, i, e) == SubSeq(text, i + 3, e - 2)

\* re.findall(pattern, text): the groups of the leftmost matches, scanning
\* from pos and resuming after the end of each match (matches do not overlap).
RECURSIVE findall(_, _)
findall(text, pos) ==
    IF pos > Len(text) THEN <<>>
    ELSE LET e == match_end(text, pos)
         IN IF e = 0 THEN findall(text, pos + 1)
            ELSE <<match_group(text, pos, e)>> \o findall(text, e + 1)

\* for ignored_id in ignored_ids: with suppress(KeyError): usernames.remove(ignored_id)
RECURSIVE remove_ignored(_, _)
remove_ignored(usernames, ignored_ids) ==
    IF ignored_ids = <<>> THEN usernames
    ELSE remove_ignored(IF Head(ignored_ids) \in usernames
                        THEN usernames \ {Head(ignored_ids)}
                        ELSE usernames,
                        Tail(ignored_ids))

extract_usernames(meeting_log, mxid, cfg) ==
    LET matches == findall(meeting_log, 1)
        usernames == Range(matches)
        ignored_ids == <<mxid, cfg.meetbot_id>> \o cfg.ignored_participants
    IN sorted(remove_ignored(usernames, ignored_ids))

\* ------------------------------------------------------------ environment
NOTICE == "m.notice"
TEXT == "m.text"
\* self.client.mxid, the bot's own identity
BOT_MXID == <<"@", "k">>
MEETBOT_ID == <<"@", "m">>
ALICE == <<"@", "a">>
ROOM1 == "!room1"
ROOM2 == "!room2"

EXAMPLE_URL == <<"h","t","t","p","s",":","/","/","e","x","a","m","p","l","e",".","o","r","g","/","m","e","e","t","i","n","g","s","/","2","0","2","5","-","0","9","-","2","5",".","l","o","g",".","t","x","t">>
EXAMPLE_ROOT == <<"/","d","a","t","a","/","m","i","n","u","t","e","s">>
EXAMPLE_FILE == <<"/","d","a","t","a","/","m","i","n","u","t","e","s","/","m","e","e","t","i","n","g","s","/","2","0","2","5","-","0","9","-","2","5",".","s","u","m","m","a","r","y",".","m","d">>

\* "https://e.org" followed by the rest of a URL
Https(rest) == <<"h","t","t","p","s",":","/","/","e",".","o","r","g">> \o rest

\* Transcript URLs an announcement can carry.
URL_OVERWRITE == Https(<<"/","m","/","x",".","l","o","g",".","t","x","t">>)
URL_DOTDOT == Https(<<"/",".",".","/","x",".","l","o","g",".","t","x","t">>)
URL_HTML == Https(<<"/","m","/","n","o","t","e","s",".","h","t","m","l">>)
URL_SHORT == Https(<<"/","a">>)
URL_QUERY == Https(<<"/","/","m","/","y",".","l","o","g",".","t","x","t","?","r","=","1","#","f">>)
URL_BARE == <<"m","/","z",".","l","o","g",".","t","x","t">>
URL_UNDER_FILE == Https(<<"/","m","/","x",".","s","u","m","m","a","r","y",".","m","d","/","y",".","l","o","g",".","t","x","t">>)
URL_IS_DIR == Https(<<"/","d",".","l","o","g",".","t","x","t">>)
URL_PARAMS == Https(<<"/","m","/",".","/","p",".","l","o","g",".","t","x","t",";","v">>)
URL_INNER_DOTDOT == Https(<<"/","m","/","a","/",".",".","/","q",".","l","o","g",".","t","x","t">>)

WideUrls == {EXAMPLE_URL, URL_OVERWRITE, URL_DOTDOT, URL_HTML, URL_SHORT, URL_QUERY,
             URL_BARE, URL_UNDER_FILE, URL_IS_DIR, URL_PARAMS, URL_INNER_DOTDOT}

\* A body of the announcing bot that is no transcript announcement.
BODY_MINUTES == <<"M","i","n","u","t","e","s",":"," ">> \o EXAMPLE_URL
\* The prefix without its final blank.
BODY_NEAR_MISS == <<"T","e","x","t"," ","L","o","g",":">> \o EXAMPLE_URL

Message(msgtype, sender, body, room) ==
    [msgtype |-> msgtype, sender |-> sender, body |-> body, room_id |-> room]

\* The room messages of Spec: every combination of type, sender and body.
Messages ==
    {Message(t, s, b, ROOM1) :
        t \in {NOTICE, TEXT}, s \in {MEETBOT_ID, ALICE},
        b \in {MEETBOT_PREFIX \o EXAMPLE_URL, BODY_MINUTES}}

\* The room messages of SpecArchive: announcements of every URL, and one
\* message of each kind the filter drops.
WideMessages ==
    {Message(NOTICE, MEETBOT_ID, MEETBOT_PREFIX \o u, r) : u \in WideUrls, r \in {ROOM1, ROOM2}}
    \cup {Message(TEXT, MEETBOT_ID, MEETBOT_PREFIX \o EXAMPLE_URL, ROOM1),
          Message(NOTICE, ALICE, MEETBOT_PREFIX \o EXAMPLE_URL, ROOM1),
          Message(NOTICE, MEETBOT_ID, BODY_NEAR_MISS, ROOM1)}

OneMessage == {Message(NOTICE, MEETBOT_ID, MEETBOT_PREFIX \o EXAMPLE_URL, ROOM1)}

\* One speaker line of a transcript.
SpeakerLine(id) == <<TS, " ", "<">> \o id \o <<">", " ", "h", "i", "\n">>

\* The transcript the HTTP server of Spec and SpecArchive serves.
DOCUMENT == SpeakerLine(<<"@", "b">>) \o SpeakerLine(ALICE) \o SpeakerLine(MEETBOT_ID)
Documents == {DOCUMENT}

\* The pieces the transcripts of SpecExtract are put together from: speaker
\* lines of two participants, of the announcing bot, of this bot and of an
\* ignored participant, a line that is no speaker line, a speaker line whose
\* "<@" is never closed, and one that lacks the blank after ">".
Fragments ==
    { SpeakerLine(ALICE), SpeakerLine(<<"@", "b">>), SpeakerLine(MEETBOT_ID),
      SpeakerLine(BOT_MXID), SpeakerLine(<<"@", "i">>),
      <<"h", "i", "\n">>,
      <<TS, " ", "<", "@", "x", "\n">>,
      <<TS, " ", "<", "@", "c", ">", "\n">> }

RECURSIVE Concatenations(_)
Concatenations(n) ==
    IF n = 0 THEN {<<>>}
    ELSE LET shorter == Concatenations(n - 1)
         IN shorter \cup {f \o t : f \in Fragments, t \in shorter}

Transcripts == Concatenations(MaxFragments)

\* response.text of the AI backend: None, or a text (possibly empty).
None == [is_none |-> TRUE, text |-> <<>>]
Some(text) == [is_none |-> FALSE, text |-> text]
SUMMARY_A == <<"- point A">>
SUMMARY_B == <<"- point B">>
Texts == {None, Some(<<>>), Some(SUMMARY_A), Some(SUMMARY_B)}
FewTexts == {None, Some(<<>>), Some(SUMMARY_A)}

\* The exceptions self.http.get / raise_for_status / response.text can raise,
\* with str(e).  raise_for_status raises ClientResponseError.
FETCH_EXCEPTIONS == {"HTTPError", "ClientResponseError", "ClientConnectionError"}
ExcStr(cls) ==
    IF cls = "HTTPError" THEN <<"Bad Gateway">>
    ELSE IF cls = "ClientResponseError" THEN <<"404, message='Not Found'">>
    ELSE <<"Cannot connect to host">>

Config(ignored, directory) ==
    [meetbot_id |-> MEETBOT_ID, ignored_participants |-> ignored,
     meetings_directory |-> directory]

Configs == {Config(<< <<"@", "i">> >>, d) : d \in {<<>>, EXAMPLE_ROOT}}
ConfigsExtract ==
    {Config(ig, <<>>) : ig \in {<<>>, << <<"@", "i">> >>, << <<"@", "i">>, <<"@", "z">>, <<"@", "i">> >>}}

\* ------------------------------------------------------------- file system
\* A location is a resolved path; fs.dirs are the directories that exist and
\* fs.files maps each existing file to its text.
NoFiles == [loc \in {} |-> <<>>]
EmptyTree == [dirs |-> {}, files |-> NoFiles]

Loc(s) == resolve(Path(s))
\* the locations of p and of every directory above it
Ancestors(loc) ==
    {[root |-> loc.root, parts |-> SubSeq(loc.parts, 1, k)] : k \in 0..Len(loc.parts)}

\* An archive left by earlier runs: /data/minutes/m/x.summary.md and
\* /data/minutes/d.summary.md/z.summary.md.
OLD_FILE == Loc(EXAMPLE_ROOT \o <<"/","m","/","x">> \o SUMMARY_SUFFIX)
OLD_NESTED == Loc(EXAMPLE_ROOT \o <<"/","d">> \o SUMMARY_SUFFIX \o <<"/","z">> \o SUMMARY_SUFFIX)
OldTree ==
    [dirs |-> (Ancestors(OLD_FILE) \cup Ancestors(OLD_NESTED)) \ {OLD_FILE, OLD_NESTED},
     files |-> [loc \in {OLD_FILE, OLD_NESTED} |-> UNVALIDATED_NOTE \o <<"- old">>]]

\* path.mkdir(parents=True, exist_ok=True): every directory on the way is
\* created unless it exists; a file in the way raises.  Returns the
\* directories afterwards and whether it raised.
prefix_loc(p, k) == resolve([root |-> p.root, parts |-> SubSeq(p.parts, 1, k)])

RECURSIVE mkdir(_, _, _)
mkdir(fs, p, k) ==
    IF k > Len(p.parts) THEN [dirs |-> fs.dirs, raised |-> FALSE]
    ELSE IF prefix_loc(p, k) \in DOMAIN fs.files THEN [dirs |-> fs.dirs, raised |-> TRUE]
    ELSE mkdir([fs EXCEPT !.dirs = @ \cup {prefix_loc(p, k)}], p, k + 1)

\* path.write_text(text): the file is opened for writing, which truncates
\* it, and the text is written; a directory at that place raises.
\* A write that opens the file for appending.
write_at_appending(fs, loc, text) ==
    IF loc \in fs.dirs THEN [fs |-> fs, raised |-> TRUE]
    ELSE [fs |-> [fs EXCEPT !.files =
                     [l \in DOMAIN fs.files \cup {loc} |->
                         IF l # loc THEN fs.files[l]
                         ELSE IF loc \in DOMAIN fs.files THEN fs.files[loc] \o text
                         ELSE text]],
          raised |-> FALSE]

write_at(fs, loc, text) ==
    IF loc \in fs.dirs THEN [fs |-> fs, raised |-> TRUE]
    ELSE [fs |-> [fs EXCEPT !.files =
                     [l \in DOMAIN fs.files \cup {loc} |->
                         IF l = loc THEN text ELSE fs.files[l]]],
          raised |-> FALSE]

write_text(fs, p, text) == write_at(fs, resolve(p), text)

\* ------------------------------------------------------------------ state
VARIABLES
    config,    \* self.config, loaded once by start()
    fs,        \* the file system below and around meetings_directory
    written,   \* the archive writes in the order they happened: <<event, location>>
    evt,       \* evt[e]: the MessageEvent of handler invocation e
    pc,        \* pc[e]: the await the invocation e is suspended at
    frame,     \* frame[e]: the local variables of the invocation
    trace      \* trace[e]: the calls the invocation has made, in order

vars == <<config, fs, written, evt, pc, frame, trace>>

NoEvent == Message("", <<>>, <<>>, "")
NoFrame ==
    [url |-> <<>>, exception |-> "", error |-> <<>>, meeting_log |-> <<>>, usernames |-> <<>>,
     summary |-> None, response_event_id |-> <<>>]

EventId(e) == <<"$event", e>>
ResponseId(e) == <<"$response", e>>

Call(op, room, target, arg, ok) ==
    [op |-> op, room |-> room, target |-> target, arg |-> arg, ok |-> ok]

Record(e, call) == trace' = [trace EXCEPT ![e] = Append(@, call)]
Goto(e, label) == pc' = [pc EXCEPT ![e] = label]

\* Awaited calls whose exceptions are suppressed.
await_result_suppressed(ok, next) == next

\* An awaited call that raises ends the invocation: nothing catches it.
await_result(ok, next) == IF ok THEN next ELSE "raised"

InitOf(configs, trees) ==
    /\ config \in configs
    /\ fs \in trees
    /\ written = <<>>
    /\ evt = [e \in Events |-> NoEvent]
    /\ pc = [e \in Events |-> "idle"]
    /\ frame = [e \in Events |-> NoFrame]
    /\ trace = [e \in Events |-> <<>>]

\* ------------------------------------------------------------- on_message
\* on_message without the check of the sender.
not_a_notice(m, cfg) == m.msgtype # NOTICE

\* on_message without the check of the message type.
not_the_sender(m, cfg) == m.sender # cfg.meetbot_id

\* The two early returns of on_message that precede mark_read.
not_from_meetbot(m, cfg) ==
    m.msgtype # NOTICE \/ m.sender # cfg.meetbot_id

\* A room message is dispatched; the room alias is looked up (MNotFound is
\* caught and gives None, which only changes log lines), then type and
\* sender are checked.
on_message(e, messages) ==
    /\ pc[e] = "idle"
    /\ \E m \in messages, ok \in BOOLEAN :
        /\ evt' = [evt EXCEPT ![e] = m]
        /\ Record(e, Call("get_state_event", m.room_id, <<>>, <<>>, ok))
        /\ Goto(e, await_result(ok, IF not_from_meetbot(m, config)
                                    THEN "returned" ELSE "mark_read"))
    /\ UNCHANGED <<config, fs, written, frame>>

\* evt.mark_read(), then the prefix check and the URL taken from the body.
mark_read(e) ==
    /\ pc[e] = "mark_read"
    /\ \E ok \in BOOLEAN :
        LET message_body == evt[e].body
            announces == startswith(message_body, MEETBOT_PREFIX)
        IN /\ Record(e, Call("mark_read", evt[e].room_id, EventId(e), <<>>, ok))
           /\ Goto(e, await_result(ok, IF announces THEN "set_typing" ELSE "returned"))
           /\ frame' = IF ok /\ announces
                       THEN [frame EXCEPT ![e].url =
                                SliceFrom(message_body, Len(MEETBOT_PREFIX))]
                       ELSE frame
    /\ UNCHANGED <<config, fs, written, evt>>

\* ----------------------------------------------------- handle_meeting_log
\* set_typing(evt.room_id, timeout=30000)
handle_meeting_log(e) ==
    /\ pc[e] = "set_typing"
    /\ \E ok \in BOOLEAN :
        /\ Record(e, Call("set_typing", evt[e].room_id, <<>>, TYPING_TIMEOUT, ok))
        /\ Goto(e, await_result(ok, "get_meeting_log"))
    /\ UNCHANGED <<config, fs, written, evt, frame>>

\* get_meeting_log with the failure glyph left out of its second message.
fetch_error_message_plain(cls) ==
    IF cls = "HTTPError"
    THEN <<CROSS_MARK, " Failed to fetch meeting log: ">> \o ExcStr(cls)
    ELSE <<"Error processing meeting log: ">> \o ExcStr(cls)

\* str(MeetingLogFetchingError) for the exception the GET raised.
fetch_error_message(cls) ==
    IF cls = "HTTPError"
    THEN <<CROSS_MARK, " Failed to fetch meeting log: ">> \o ExcStr(cls)
    ELSE <<CROSS_MARK, " Error processing meeting log: ">> \o ExcStr(cls)

\* The GET of the transcript.  It returns a document, and the participants
\* are extracted from it (a call of the plugin itself, kept in the trace),
\* or it raises, and the error is to be replied.
get_meeting_log(e, documents) ==
    /\ pc[e] = "get_meeting_log"
    /\ \/ \E doc \in documents :
            /\ trace' = [trace EXCEPT ![e] =
                            @ \o <<Call("get", evt[e].room_id, <<>>, frame[e].url, TRUE),
                                   Call("extract_usernames", evt[e].room_id, <<>>, doc, TRUE)>>]
            /\ frame' = [frame EXCEPT ![e].meeting_log = doc,
                                      ![e].usernames = extract_usernames(doc, BOT_MXID, config)]
            /\ Goto(e, "get_summary")
       \/ \E cls \in FETCH_EXCEPTIONS :
            /\ Record(e, Call("get", evt[e].room_id, <<>>, frame[e].url, FALSE))
            /\ frame' = [frame EXCEPT ![e].exception = cls,
                                      ![e].error = fetch_error_message(cls)]
            /\ Goto(e, "reply")
    /\ UNCHANGED <<config, fs, written, evt>>

\* except MeetingLogFetchingError: evt.reply(str(e)); return
reply_error(e) ==
    /\ pc[e] = "reply"
    /\ \E ok \in BOOLEAN :
        /\ Record(e, Call("reply", evt[e].room_id, EventId(e), frame[e].error, ok))
        /\ Goto(e, await_result(ok, "returned"))
    /\ UNCHANGED <<config, fs, written, evt, frame>>

\* post_summary's first test
summary_is_absent(summary) == summary.is_none

\* The backend call: it raises, or response.text comes back, and
\* post_summary returns at once when the summary is absent.
get_summary(e, texts) ==
    /\ pc[e] = "get_summary"
    /\ \/ /\ Record(e, Call("generate_content", evt[e].room_id, <<>>, <<>>, FALSE))
          /\ Goto(e, "raised")
          /\ UNCHANGED frame
       \/ \E summary \in texts :
            /\ Record(e, Call("generate_content", evt[e].room_id, <<>>, <<>>, TRUE))
            /\ frame' = [frame EXCEPT ![e].summary = summary]
            /\ Goto(e, IF summary_is_absent(summary) THEN "set_typing_0" ELSE "respond")
    /\ UNCHANGED <<config, fs, written, evt>>

\* ------------------------------------------------------------ post_summary
\* RESPONSE_TEMPLATE.format(members=", ".join(usernames), summary=summary)
RESPONSE_TEMPLATE(members, summary) ==
    <<"Hello ">> \o members
    \o <<". Here's a short summary of the meeting:", "\n", "\n", "---", "\n">>
    \o summary
    \o <<"\n", "---", "\n", "\n",
         "Does it look correct to you? If so, please click on ", CHECK_MARK,
         ", otherwise please click on ", CROSS_MARK, ".", "\n", "\n",
         "(*this bot feature is in alpha stage, thanks for your patience*)", "\n">>

\* evt.respond(...): the summary is posted in the room of the event.
respond(e) ==
    /\ pc[e] = "respond"
    /\ \E ok \in BOOLEAN :
        /\ Record(e, Call("respond", evt[e].room_id, <<>>,
                          RESPONSE_TEMPLATE(join(<<",", " ">>, frame[e].usernames),
                                            frame[e].summary.text), ok))
        /\ frame' = IF ok THEN [frame EXCEPT ![e].response_event_id = ResponseId(e)]
                    ELSE frame
        /\ Goto(e, await_result(ok, "react_accept"))
    /\ UNCHANGED <<config, fs, written, evt>>

\* self.client.react(evt.room_id, response_event_id, CHECK_MARK)
react_accept(e) ==
    /\ pc[e] = "react_accept"
    /\ \E ok \in BOOLEAN :
        /\ Record(e, Call("react", evt[e].room_id, frame[e].response_event_id, CHECK_MARK, ok))
        /\ Goto(e, await_result(ok, "react_reject"))
    /\ UNCHANGED <<config, fs, written, evt, frame>>

\* post_summary without the lstrip("/").
summary_path_unstripped(url) ==
    SliceDropLast(urlparse(url).path, Len(LOG_SUFFIX)) \o SUMMARY_SUFFIX

\* The relative path of the archive file, from the URL of the transcript.
summary_path(url) ==
    lstrip(SliceDropLast(urlparse(url).path, Len(LOG_SUFFIX)) \o SUMMARY_SUFFIX, {"/"})

\* The end of _save_summary_to_file, once the parent directories are made
\* (made: the result of mkdir).
save_made(files, made, file_path, text) ==
    IF made.raised
    THEN [fs |-> [files EXCEPT !.dirs = made.dirs], raised |-> TRUE]
    ELSE write_text([files EXCEPT !.dirs = made.dirs], file_path, text)

save_text(files, file_path, text) ==
    save_made(files, mkdir(files, parent(file_path), 0), file_path, text)

\* _save_summary_to_file: nothing when no directory is configured; else the
\* notice is put before the summary, the parent directories are made and the
\* file is written.  called: a file was to be written at file_path; raised:
\* mkdir or write_text raised.
saved_as(out, called, file_path) ==
    [fs |-> out.fs, called |-> called, raised |-> out.raised, file_path |-> file_path]

_save_summary_to_file(files, cfg, summary, path, validated) ==
    IF cfg.meetings_directory = <<>>
    THEN saved_as([fs |-> files, raised |-> FALSE], FALSE, Path(<<>>))
    ELSE saved_as(save_text(files, joinpath(Path(cfg.meetings_directory), path),
                            IF ~validated THEN UNVALIDATED_NOTE \o summary ELSE summary),
                  TRUE, joinpath(Path(cfg.meetings_directory), path))

\* What follows the reject reaction in post_summary, with no await in
\* between: the path is derived and the summary is saved (saved: the result
\* of _save_summary_to_file).
archive(e, call, saved) ==
    /\ trace' = [trace EXCEPT ![e] =
                    IF saved.called
                    THEN @ \o <<call, Call("write_text", evt[e].room_id, <<>>,
                                          PathStr(saved.file_path), ~saved.raised)>>
                    ELSE Append(@, call)]
    /\ fs' = saved.fs
    /\ written' = IF saved.called /\ ~saved.raised
                  THEN Append(written, <<e, resolve(saved.file_path)>>)
                  ELSE written
    /\ Goto(e, await_result(~saved.raised, "set_typing_0"))

\* self.client.react(evt.room_id, response_event_id, CROSS_MARK), and the
\* rest of post_summary.
react_reject(e) ==
    /\ pc[e] = "react_reject"
    /\ \/ /\ Record(e, Call("react", evt[e].room_id, frame[e].response_event_id,
                            CROSS_MARK, FALSE))
          /\ Goto(e, "raised")
          /\ UNCHANGED <<fs, written>>
       \/ archive(e, Call("react", evt[e].room_id, frame[e].response_event_id,
                          CROSS_MARK, TRUE),
                  _save_summary_to_file(fs, config, frame[e].summary.text,
                                        summary_path(frame[e].url), FALSE))
    /\ UNCHANGED <<config, evt, frame>>

\* set_typing(evt.room_id, timeout=0), the last statement of handle_meeting_log
clear_typing(e) ==
    /\ pc[e] = "set_typing_0"
    /\ \E ok \in BOOLEAN :
        /\ Record(e, Call("set_typing", evt[e].room_id, <<>>, 0, ok))
        /\ Goto(e, await_result(ok, "returned"))
    /\ UNCHANGED <<config, fs, written, evt, frame>>

\* --------------------------------------------------------- specifications
Step(e, messages, documents, texts) ==
    \/ on_message(e, messages)
    \/ mark_read(e)
    \/ handle_meeting_log(e)
    \/ get_meeting_log(e, documents)
    \/ reply_error(e)
    \/ get_summary(e, texts)
    \/ respond(e)
    \/ react_accept(e)
    \/ react_reject(e)
    \/ clear_typing(e)

\* The handler invocations of NumEvents room messages, interleaved at their
\* awaits, on an empty archive.
Init == InitOf(Configs, {EmptyTree})
Next == \E e \in Events : Step(e, Messages, Documents, Texts)
Spec == Init /\ [][Next]_vars

\* One invocation, for announcements of every URL, on an empty archive or on
\* one that earlier runs have filled.
InitArchive == InitOf(Configs, {EmptyTree, OldTree})
NextArchive == Step(1, WideMessages, Documents, FewTexts)
SpecArchive == InitArchive /\ [][NextArchive]_vars

\* One invocation, for every transcript and every list of ignored
\* participants.
InitExtract == InitOf(ConfigsExtract, {EmptyTree})
NextExtract == Step(1, OneMessage, Transcripts, {Some(SUMMARY_A)})
SpecExtract == InitExtract /\ [][NextExtract]_vars

\* ------------------------------------------------------------------ claims
Calls(e, ops) == SelectSeq(trace[e], LAMBDA c : c.op \in ops)
Made(e, ops) == \E i \in DOMAIN trace[e] : trace[e][i].op \in ops
Ended(e) == pc[e] \in {"returned", "raised"}

\* The admission predicate of the event filter.
Admitted(m) ==
    /\ m.msgtype = NOTICE
    /\ m.sender = config.meetbot_id
    /\ startswith(m.body, MEETBOT_PREFIX)

FromMeetbot(m) == m.msgtype = NOTICE /\ m.sender = config.meetbot_id

\* C1: a message that is not admitted (another sender, another type, or a
\* body without the prefix) leads to no reply, no fetch, no summary, no
\* reaction, no typing signal and no archive write, and handle_meeting_log is
\* never entered: the only calls are the alias lookup and mark_read.
C1_IgnoredMessageMakesNoCalls ==
    \A e \in Events :
        (pc[e] # "idle" /\ ~Admitted(evt[e])) =>
            /\ pc[e] \in {"mark_read", "returned", "raised"}
            /\ \A i \in DOMAIN trace[e] : trace[e][i].op \in {"get_state_event", "mark_read"}
            /\ \A i \in DOMAIN written : written[i][1] # e

\* An announcing-bot notice without the prefix has been handled to the end.
C1_Witness ==
    \E e \in Events :
        /\ pc[e] = "returned"
        /\ FromMeetbot(evt[e])
        /\ ~Admitted(evt[e])

\* C2 as stated: an event is marked read if and only if it is admitted.
C2_MarkedReadIffAdmitted ==
    \A e \in Events :
        /\ Made(e, {"mark_read"}) => Admitted(evt[e])
        /\ (Admitted(evt[e]) /\ pc[e] = "returned") => Made(e, {"mark_read"})

\* C2, amended: mark_read is called if and only if the message is a notice of
\* the announcing bot, whatever its body: never for another type or sender,
\* and always before on_message goes past the sender check.
C2_MarkedReadIffFromMeetbot ==
    \A e \in Events :
        /\ Made(e, {"mark_read"}) => FromMeetbot(evt[e])
        /\ (FromMeetbot(evt[e]) /\ pc[e] \notin {"idle", "mark_read", "raised"})
               => Made(e, {"mark_read"})

\* A notice of the announcing bot without the prefix was marked read, and
\* on_message returned.
C2_Witness ==
    \E e \in Events :
        /\ pc[e] = "returned"
        /\ ~Admitted(evt[e])
        /\ Calls(e, {"mark_read"}) = <<Call("mark_read", evt[e].room_id, EventId(e), <<>>, TRUE)>>

FetchFailed(e) ==
    \E i \in DOMAIN trace[e] : trace[e][i].op = "get" /\ ~trace[e][i].ok

\* C3: when the GET fails, the one call that follows is a reply to the
\* triggering event, in its room, whose text starts with the failure glyph
\* and ends with the text of the exception; the summarizer is not called, no
\* summary and no reaction is posted, nothing is archived, and the
\* invocation ends.
C3_FetchFailureRepliesOnce ==
    \A e \in Events :
        FetchFailed(e) =>
            /\ pc[e] \in {"reply", "returned", "raised"}
            /\ ~Made(e, {"generate_content", "respond", "react", "write_text", "extract_usernames"})
            /\ \A i \in DOMAIN written : written[i][1] # e
            /\ Len(Calls(e, {"reply"})) = (IF Ended(e) THEN 1 ELSE 0)
            /\ \A i \in DOMAIN trace[e] :
                   trace[e][i].op = "reply" =>
                       /\ i = Len(trace[e])
                       /\ trace[e][i].target = EventId(e)
                       /\ trace[e][i].room = evt[e].room_id
                       /\ Head(trace[e][i].arg) = CROSS_MARK
                       /\ endswith(trace[e][i].arg, ExcStr(frame[e].exception))

\* A GET failed with a bad status, the reply was sent and the handler
\* returned.
C3_Witness ==
    \E e \in Events :
        /\ FetchFailed(e)
        /\ frame[e].exception = "ClientResponseError"
        /\ pc[e] = "returned"
        /\ Len(Calls(e, {"reply"})) = 1

\* C4: when the backend returns no text or an empty text, nothing is posted
\* and nothing is archived, and extract_usernames was called before the
\* backend.
C4_AbsentOrEmptySummaryIsSilent ==
    \A e \in Events :
        \A i \in DOMAIN trace[e] :
            ( /\ trace[e][i].op = "generate_content"
              /\ trace[e][i].ok
              /\ (frame[e].summary.is_none \/ frame[e].summary.text = <<>>) )
            => /\ ~Made(e, {"reply", "respond", "react", "write_text"})
               /\ \E j \in 1..(i - 1) : trace[e][j].op = "extract_usernames"

\* The path of the archive file as the claim derives it: the path of the
\* URL without its leading separators, ".log.txt" at its end replaced.
ClaimedPath(url) ==
    SubSeq(lstrip(urlparse(url).path, {"/"}), 1,
           Len(lstrip(urlparse(url).path, {"/"})) - Len(LOG_SUFFIX)) \o SUMMARY_SUFFIX

ClaimedFile(root, url) == Loc(root \o <<"/">> \o ClaimedPath(url))

\* The invocation e went through post_summary without an exception.
Posted(e) == pc[e] \in {"set_typing_0", "returned"} /\ Made(e, {"respond"})

\* C5: for a URL whose path ends in ".log.txt" and a configured directory, a
\* pipeline that succeeds writes one file, at the directory joined with the
\* claimed path, holding the notice followed by the summary; for the URL and
\* the directory of the example the file is named
\* /data/minutes/meetings/2025-09-25.summary.md.
C5_ArchiveFileIsDerivedFromUrl ==
    \A e \in Events :
        ( /\ Posted(e)
          /\ config.meetings_directory # <<>>
          /\ endswith(urlparse(frame[e].url).path, LOG_SUFFIX) )
        => /\ Len(Calls(e, {"write_text"})) = 1
           /\ Calls(e, {"write_text"})[1].ok
           /\ Loc(Calls(e, {"write_text"})[1].arg)
                  = ClaimedFile(config.meetings_directory, frame[e].url)
           /\ written = << <<e, ClaimedFile(config.meetings_directory, frame[e].url)>> >>
           /\ fs.files[ClaimedFile(config.meetings_directory, frame[e].url)]
                  = UNVALIDATED_NOTE \o frame[e].summary.text
           /\ (frame[e].url = EXAMPLE_URL /\ config.meetings_directory = EXAMPLE_ROOT)
                  => Calls(e, {"write_text"})[1].arg = EXAMPLE_FILE

\* The pipeline of the example URL has ended with its summary archived.
C5_Witness ==
    \E e \in Events :
        /\ pc[e] = "returned"
        /\ frame[e].url = EXAMPLE_URL
        /\ frame[e].summary = Some(SUMMARY_A)
        /\ Made(e, {"write_text"})
        /\ Loc(EXAMPLE_FILE) \in DOMAIN fs.files

\* C6: when handle_meeting_log has returned, the typing signal it set with
\* timeout 30000 has been cleared by a later set_typing with timeout 0 in
\* the same room.
C6_TypingIsCleared ==
    \A e \in Events :
        pc[e] = "returned" =>
            \A i \in DOMAIN trace[e] :
                (trace[e][i].op = "set_typing" /\ trace[e][i].arg = TYPING_TIMEOUT)
                => \E j \in (i + 1)..Len(trace[e]) :
                       /\ trace[e][j].op = "set_typing"
                       /\ trace[e][j].arg = 0
                       /\ trace[e][j].room = trace[e][i].room

\* the last write to location loc
LastWrite(loc) ==
    CHOOSE i \in DOMAIN written :
        written[i][2] = loc /\ \A j \in (i + 1)..Len(written) : written[j][2] # loc

\* C7: every archive file holds the notice followed by the summary of the
\* last write to its path, and nothing else.
C7_LatestWriteWins ==
    \A loc \in DOMAIN fs.files :
        /\ \E i \in DOMAIN written : written[i][2] = loc
        /\ fs.files[loc] = UNVALIDATED_NOTE \o frame[written[LastWrite(loc)][1]].summary.text

\* Two invocations have written different summaries to the same path.
C7_Witness ==
    \E i, j \in DOMAIN written :
        /\ i < j
        /\ written[i][2] = written[j][2]
        /\ frame[written[i][1]].summary.text # frame[written[j][1]].summary.text
        /\ frame[written[i][1]].summary.text # <<>>
        /\ frame[written[j][1]].summary.text # <<>>

\* The identities of the speaker lines of a transcript: every "@..." that
\* stands between a timestamp followed by " <" and a "> ", with no ">" in it.
SpeakerIdentities(text) ==
    { SubSeq(text, i + 3, j - 1) :
        <<i, j>> \in { ij \in (1..Len(text)) \X (1..Len(text)) :
            /\ ij[1] + 5 <= ij[2]
            /\ ij[2] + 1 <= Len(text)
            /\ text[ij[1]] = TS /\ text[ij[1] + 1] = " "
            /\ text[ij[1] + 2] = "<" /\ text[ij[1] + 3] = "@"
            /\ text[ij[2]] = ">" /\ text[ij[2] + 1] = " "
            /\ \A k \in (ij[1] + 4)..(ij[2] - 1) : text[k] # ">" } }

\* C8: extract_usernames returns the identities of the speaker lines, without
\* the bot, the announcing bot and the ignored participants, sorted and
\* without duplicates.
C8_ExtractsTheSpeakers ==
    \A e \in Events :
        Made(e, {"extract_usernames"}) =>
            /\ Range(frame[e].usernames)
                   = SpeakerIdentities(frame[e].meeting_log)
                         \ ({BOT_MXID, config.meetbot_id} \cup Range(config.ignored_participants))
            /\ \A i, j \in DOMAIN frame[e].usernames :
                   i < j => str_lt(frame[e].usernames[i], frame[e].usernames[j])

\* The calls of post_summary in the order the claim gives them.
PostOrder == <<"respond", "react", "react", "write_text">>
PostArgs == <<"", CHECK_MARK, CROSS_MARK, "">>

\* C9: the summary, the accept reaction, the reject reaction and the archive
\* write happen once each and in that order, every one only after the ones
\* before it succeeded; the summary is posted in the room of the event and
\* both reactions are put on it.
C9_PostThenReactThenArchive ==
    \A e \in Events :
        LET side == Calls(e, {"respond", "react", "write_text"})
        IN /\ Len(side) <= 4
           /\ \A k \in DOMAIN side :
                  /\ side[k].op = PostOrder[k]
                  /\ side[k].room = evt[e].room_id
                  /\ k < Len(side) => side[k].ok
                  /\ k \in {2, 3} => (side[k].arg = PostArgs[k] /\ side[k].target = ResponseId(e))
           /\ (\E i \in DOMAIN written : written[i][1] = e) => (Len(side) = 4 /\ side[4].ok)

\* A summary was archived after the reply and both reactions.
C9_Witness ==
    \E e \in Events :
        /\ pc[e] = "returned"
        /\ Len(Calls(e, {"respond", "react", "write_text"})) = 4
        /\ \E i \in DOMAIN written : written[i][1] = e

\* C10: every file the archiver writes lies below the configured directory.
C10_ArchiveStaysUnderRoot ==
    \A i \in DOMAIN written :
        is_relative_to(written[i][2], Loc(config.meetings_directory))
====
